---- MODULE Spec2Model ----
(***************************************************************************)
(* Model of the include-dependency checker of the skunkworks Netlify       *)
(* extension (src/src/index.ts and its two earlier variants).              *)
(*                                                                         *)
(* Strings are sequences of tokens.  The tokens "/", ".", ":", " " and     *)
(* "\n" are the characters the code inspects; every other token is a word  *)
(* of characters the code never looks inside ("source", "rst", ...).       *)
(* String functions (trim, startsWith, split, path.normalize, ...) are     *)
(* computed on these sequences the way the JavaScript runtime computes     *)
(* them on characters.                                                     *)
(***************************************************************************)
EXTENDS Integers, Sequences, FiniteSets, TLC

VARIABLES
    pc,                    \* position of the routine or handler being run
    \* resolveIncludeDependencies
    directory,             \* directoryToScrape / the `directory` parameter
    fs,                    \* the file tree: sequence of [path, content], in enumeration order
    changedFilesFromGit,   \* the changed-file list handed to resolveIncludeDependencies
    includeDependencies,   \* Map<abs target, Set<abs includer>> (a Set is kept in insertion order)
    impactDetailsMap,      \* result: changed file -> sorted includer list
    directChanges,         \* result: sorted list of direct changes
    \* the path resolution of one directive
    directive, includer, resolved,
    \* extractIncludeFiles
    extractPath, includeFiles,
    \* createNetlifyMarkdownLink
    linkPath, linkBaseUrl, markdownLink,
    \* the build and its collaborators
    constants,             \* [BRANCH, HEAD, DEPLOY_PRIME_URL] of the build
    gitDiff,               \* what `git diff --name-only` does: [throws, stdout]
    statusShown,           \* the utils.status.show calls, in order
    failPluginCalls,       \* the utils.build.failPlugin calls, in order
    execSyncCalls,         \* number of execSync invocations
    consoleLog,            \* the console.log and console.warn lines, in order
    \* the tree scan and the substring-match handlers of part_000 and part_001
    unreadable,            \* the directories whose readdirSync throws
    scanned,               \* the files walkSync has yielded, in order
    thrown,                \* whether an exception left the routine
    git,                   \* the `git` utilities handed to the handler
    impactedFilesMap       \* changed include file -> the files found to include it

resolveVars == <<directory, fs, changedFilesFromGit, includeDependencies,
                 impactDetailsMap, directChanges>>
pathVars == <<directive, includer, resolved>>
extractVars == <<extractPath, includeFiles>>
linkVars == <<linkPath, linkBaseUrl, markdownLink>>
buildVars == <<constants, gitDiff, statusShown, failPluginCalls, execSyncCalls, consoleLog>>

scanVars == <<unreadable, scanned, thrown, git, impactedFilesMap>>

vars == <<pc, resolveVars, pathVars, extractVars, linkVars, buildVars, scanVars>>

-----------------------------------------------------------------------------
(* Bounds of the model.                                                    *)

MaxWrites == 3      \* lines written into the tree, over all files
MaxChanged == 2     \* length of a changed-file list
MaxIncluders == 2   \* size of an includer set of a hand-made index

SeqsUpTo(S, n) == UNION {[1..k -> S] : k \in 0..n}

-----------------------------------------------------------------------------
(* JavaScript string primitives.                                           *)

StartsWith(s, p) == Len(p) <= Len(s) /\ SubSeq(s, 1, Len(p)) = p

EndsWith(s, p) == Len(p) <= Len(s) /\ SubSeq(s, Len(s) - Len(p) + 1, Len(s)) = p

Substring(s, n) == SubSeq(s, n + 1, Len(s))

IsSpace(c) == c \in {" ", "\t", "\r", "\n"}

RECURSIVE TrimStart(_)
TrimStart(s) ==
    IF s # <<>> /\ IsSpace(Head(s)) THEN TrimStart(Tail(s)) ELSE s

RECURSIVE TrimEnd(_)
TrimEnd(s) ==
    IF s # <<>> /\ IsSpace(s[Len(s)]) THEN TrimEnd(SubSeq(s, 1, Len(s) - 1)) ELSE s

Trim(s) == TrimEnd(TrimStart(s))

RECURSIVE SplitAcc(_, _, _)
SplitAcc(s, sep, cur) ==
    IF s = <<>> THEN <<cur>>
    ELSE IF StartsWith(s, sep)
         THEN <<cur>> \o SplitAcc(Substring(s, Len(sep)), sep, <<>>)
         ELSE SplitAcc(Tail(s), sep, Append(cur, Head(s)))

\* String.prototype.split(sep): every piece, left to right, no limit.
Split(s, sep) == SplitAcc(s, sep, <<>>)

RECURSIVE Join(_, _)
Join(parts, sep) ==
    IF parts = <<>> THEN <<>>
    ELSE IF Len(parts) = 1 THEN parts[1]
    ELSE parts[1] \o sep \o Join(Tail(parts), sep)

\* Code-unit order of the tokens (no token is a prefix of another one that
\* occurs in a string the code sorts).
TokenOrder ==
    <<"\t", "\n", "\r", " ", ".", "/", ":", "[", "]", "(", ")",
      "a", "elsewhere", "examples", "foo", "git", "https", "images", "include",
      "includes", "literalinclude", "md", "node_modules", "other", "page",
      "repo", "rst", "source", "test", "text", "txt", "x">>

Rank(t) == CHOOSE i \in 1..Len(TokenOrder) : TokenOrder[i] = t

RECURSIVE StrLess(_, _)
StrLess(a, b) ==
    IF b = <<>> THEN FALSE
    ELSE IF a = <<>> THEN TRUE
    ELSE IF Head(a) = Head(b) THEN StrLess(Tail(a), Tail(b))
    ELSE Rank(Head(a)) < Rank(Head(b))

\* A sort that is left out: the list stays in insertion order.
SortUnsorted(xs) == xs

\* Array.prototype.sort() with the default comparator.
Sort(xs) == SortSeq(xs, StrLess)

\* An array push where a Set was meant: duplicates are kept.
SetAddPush(xs, x) == Append(xs, x)

\* Set.prototype.add: insertion order, no duplicates.
SetAdd(xs, x) == IF \E i \in 1..Len(xs) : xs[i] = x THEN xs ELSE Append(xs, x)

Range(xs) == {xs[i] : i \in 1..Len(xs)}

-----------------------------------------------------------------------------
(* Node's posix path module, as used by the code.                          *)

SEP == <<"/">>
DotDot == <<".", ".">>

RECURSIVE NormalizeString(_, _, _)
NormalizeString(segs, acc, allowAboveRoot) ==
    IF segs = <<>> THEN acc
    ELSE LET s == Head(segs)
             rest == Tail(segs)
         IN  IF s = <<>> \/ s = <<".">> THEN NormalizeString(rest, acc, allowAboveRoot)
             ELSE IF s = DotDot
                  THEN IF acc # <<>> /\ acc[Len(acc)] # DotDot
                       THEN NormalizeString(rest, SubSeq(acc, 1, Len(acc) - 1), allowAboveRoot)
                       ELSE IF allowAboveRoot
                            THEN NormalizeString(rest, Append(acc, DotDot), allowAboveRoot)
                            ELSE NormalizeString(rest, acc, allowAboveRoot)
                  ELSE NormalizeString(rest, Append(acc, s), allowAboveRoot)

\* path.normalize
Normalize(p) ==
    IF p = <<>> THEN <<".">>
    ELSE LET isAbsolute == Head(p) = "/"
             trailingSeparator == p[Len(p)] = "/"
             body == Join(NormalizeString(Split(p, SEP), <<>>, ~isAbsolute), SEP)
         IN  IF body = <<>>
             THEN IF isAbsolute THEN SEP
                  ELSE IF trailingSeparator THEN <<".", "/">> ELSE <<".">>
             ELSE (IF isAbsolute THEN SEP ELSE <<>>)
                  \o body \o (IF trailingSeparator THEN SEP ELSE <<>>)

\* path.join of two arguments
PathJoin(a, b) ==
    LET joined == IF a = <<>> THEN b
                  ELSE IF b = <<>> THEN a
                  ELSE a \o SEP \o b
    IN  IF joined = <<>> THEN <<".">> ELSE Normalize(joined)

\* path.dirname: the last "/" that is followed by a non-separator, scanning
\* from the end and never looking at index 0.
DirnameEnd(p) ==
    LET cands == {i \in 2..Len(p) :
                    /\ p[i] = "/"
                    /\ \E j \in (i + 1)..Len(p) : p[j] # "/"}
    IN  IF cands = {} THEN 0 ELSE CHOOSE i \in cands : \A k \in cands : k <= i

Dirname(p) ==
    IF p = <<>> THEN <<".">>
    ELSE LET hasRoot == Head(p) = "/"
             end == DirnameEnd(p)
         IN  IF end = 0 THEN (IF hasRoot THEN SEP ELSE <<".">>)
             ELSE SubSeq(p, 1, end - 1)

\* path.extname of a directory entry name
ExtName(name) ==
    LET dots == {i \in 1..Len(name) : name[i] = "."}
    IN  IF dots = {} THEN <<>>
        ELSE LET startDot == CHOOSE i \in dots : \A k \in dots : k <= i
             IN  IF startDot = 1 \/ name = DotDot THEN <<>>
                 ELSE SubSeq(name, startDot, Len(name))

RECURSIVE CommonPrefixLen(_, _)
CommonPrefixLen(a, b) ==
    IF a = <<>> \/ b = <<>> \/ Head(a) # Head(b) THEN 0
    ELSE 1 + CommonPrefixLen(Tail(a), Tail(b))

\* path.relative of two absolute paths
Relative(from, to) ==
    LET f == NormalizeString(Split(from, SEP), <<>>, FALSE)
        t == NormalizeString(Split(to, SEP), <<>>, FALSE)
        k == CommonPrefixLen(f, t)
        ups == [i \in 1..(Len(f) - k) |-> DotDot]
    IN  Join(ups \o SubSeq(t, k + 1, Len(t)), SEP)

-----------------------------------------------------------------------------
(* The file tree seen through fs.existsSync / statSync / readFileSync /    *)
(* readdirSync.  A tree is a sequence of regular files; directories are    *)
(* the proper prefixes of their paths; enumeration order of a directory    *)
(* is the order in which its entries first occur in the sequence.          *)

IsFile(tree, p) == \E i \in 1..Len(tree) : tree[i].path = p

ReadFile(tree, p) == (CHOOSE e \in Range(tree) : e.path = p).content

RECURSIVE ReadDirFrom(_, _, _)
ReadDirFrom(tree, dir, seen) ==
    IF tree = <<>> THEN <<>>
    ELSE LET p == Head(tree).path
         IN  IF ~StartsWith(p, dir \o SEP)
             THEN ReadDirFrom(Tail(tree), dir, seen)
             ELSE LET below == Split(Substring(p, Len(dir) + 1), SEP)
                      name == below[1]
                  IN  IF name \in seen
                      THEN ReadDirFrom(Tail(tree), dir, seen)
                      ELSE <<[name |-> name, isDirectory |-> Len(below) > 1]>>
                           \o ReadDirFrom(Tail(tree), dir, seen \cup {name})

\* fs.readdirSync(dir, { withFileTypes: true })
ReadDir(tree, dir) == ReadDirFrom(tree, dir, {})

-----------------------------------------------------------------------------
(* src/src/index.ts                                                        *)

IGNORED_DIRS_FOR_NETLIFY_LINKS == {<<"includes">>, <<"images">>, <<"examples">>}
RELEVANT_FILE_EXTENSIONS == {<<".", "rst">>, <<".", "txt">>}
SkippedDirNames == {<<".", "git">>, <<"node_modules">>}

IncludeMarker == <<".", ".", " ", "include", ":", ":">>
LiteralIncludeMarker == <<".", ".", " ", "literalinclude", ":", ":">>
DoubleColon == <<":", ":">>

\* One iteration of the loop of extractIncludeFiles over the lines.
ExtractLine(line) ==
    LET trimmedLine == Trim(line)
    IN  IF StartsWith(trimmedLine, IncludeMarker) \/ StartsWith(trimmedLine, LiteralIncludeMarker)
        THEN LET parts == Split(trimmedLine, DoubleColon)
             IN  IF Len(parts) > 1
                 THEN LET includePath == Trim(parts[2])
                      IN  IF includePath # <<>> THEN <<includePath>> ELSE <<>>
                 ELSE <<>>
        ELSE <<>>

RECURSIVE ExtractLines(_)
ExtractLines(lines) ==
    IF lines = <<>> THEN <<>> ELSE ExtractLine(Head(lines)) \o ExtractLines(Tail(lines))

extractIncludeFiles(tree, filePath) ==
    IF ~IsFile(tree, filePath) THEN <<>>
    ELSE ExtractLines(Split(ReadFile(tree, filePath), <<"\n">>))

\* The file system of a run in which every directory can be read.
AllReadable == {}

RECURSIVE walkSync(_, _, _)
RECURSIVE WalkDirents(_, _, _, _)
\* Lines 130-143: the loop over the entries of one directory.
WalkDirents(tree, dir, dirents, noRead) ==
    IF dirents = <<>> THEN <<>>
    ELSE LET dirent == Head(dirents)
             fullPath == PathJoin(dir, dirent.name)
             here == IF dirent.isDirectory
                     THEN IF dirent.name \in SkippedDirNames THEN <<>>
                          ELSE walkSync(tree, fullPath, noRead)
                     ELSE IF ExtName(dirent.name) \in RELEVANT_FILE_EXTENSIONS
                          THEN <<fullPath>>
                          ELSE <<>>
         IN  here \o WalkDirents(tree, dir, Tail(dirents), noRead)

\* Lines 121-144: the files the generator yields, in order.  noRead is the
\* set of directories whose readdirSync throws; the catch of lines 125-128
\* ends the generator for such a directory.
walkSync(tree, dir, noRead) ==
    IF dir \in noRead THEN <<>>
    ELSE WalkDirents(tree, dir, ReadDir(tree, dir), noRead)

\* The two branches taken on one base: every target, its leading "/" stripped,
\* is joined to the directory of the including file.
ResolveTargetOneBase(includeDirectivePath, currentFileAbsPath, dir) ==
    Normalize(PathJoin(Dirname(currentFileAbsPath),
                       IF StartsWith(includeDirectivePath, SEP)
                       THEN Substring(includeDirectivePath, 1)
                       ELSE includeDirectivePath))

\* Lines 152-164: the location an include directive of currentFileAbsPath names.
ResolveTarget(includeDirectivePath, currentFileAbsPath, dir) ==
    LET sphinxSourceDirAbsolute == PathJoin(dir, <<"source">>)
    IN  IF StartsWith(includeDirectivePath, SEP)
        THEN Normalize(PathJoin(sphinxSourceDirAbsolute, Substring(includeDirectivePath, 1)))
        ELSE Normalize(PathJoin(Dirname(currentFileAbsPath), includeDirectivePath))

MapHas(m, k) == k \in DOMAIN m
MapSet(m, k, v) == [x \in (DOMAIN m) \cup {k} |-> IF x = k THEN v ELSE m[x]]
EmptyMap == [x \in {} |-> <<>>]

\* Lines 166-169: record currentFileAbsPath as an includer of the target.
AddIncluder(index, targetIncludeAbsPath, currentFileAbsPath) ==
    LET had == IF MapHas(index, targetIncludeAbsPath) THEN index[targetIncludeAbsPath] ELSE <<>>
    IN  MapSet(index, targetIncludeAbsPath, SetAdd(had, currentFileAbsPath))

RECURSIVE IndexTargets(_, _, _, _)
IndexTargets(index, extractedIncludePaths, currentFileAbsPath, dir) ==
    IF extractedIncludePaths = <<>> THEN index
    ELSE IndexTargets(
            AddIncluder(index,
                        ResolveTarget(Head(extractedIncludePaths), currentFileAbsPath, dir),
                        currentFileAbsPath),
            Tail(extractedIncludePaths), currentFileAbsPath, dir)

RECURSIVE IndexFiles(_, _, _, _)
IndexFiles(index, files, tree, dir) ==
    IF files = <<>> THEN index
    ELSE IndexFiles(
            IndexTargets(index, extractIncludeFiles(tree, Head(files)), Head(files), dir),
            Tail(files), tree, dir)

\* Lines 147-171: the reverse index of the tree under dir.
BuildIndex(tree, dir) == IndexFiles(EmptyMap, walkSync(tree, dir, AllReadable), tree, dir)

\* Line 184: the container lies within the scanned directory.
InsideDirectory(containerAbsPath, dir) ==
    StartsWith(containerAbsPath, dir \o SEP) \/ containerAbsPath = dir

RECURSIVE ContainerRelPaths(_, _, _)
ContainerRelPaths(containerAbsPaths, dir, acc) ==
    IF containerAbsPaths = <<>> THEN acc
    ELSE LET containerAbsPath == Head(containerAbsPaths)
         IN  ContainerRelPaths(
                Tail(containerAbsPaths), dir,
                IF InsideDirectory(containerAbsPath, dir)
                THEN SetAdd(acc, Relative(dir, containerAbsPath))
                ELSE acc)

\* The loop body without its inner else branch: a changed file whose index
\* entry has no includer inside the root gets an empty record.
ClassifyOneNoCollapse(res, relPathFromGit, index, dir) ==
    LET absPathFromGit == Normalize(PathJoin(dir, relPathFromGit))
    IN  IF MapHas(index, absPathFromGit)
        THEN [res EXCEPT !.impactDetailsMap =
                 MapSet(@, relPathFromGit,
                        Sort(ContainerRelPaths(index[absPathFromGit], dir, <<>>)))]
        ELSE [res EXCEPT !.directChangesSet = SetAdd(@, relPathFromGit)]

\* Lines 176-198: one iteration of the loop over the changed files.
ClassifyOne(res, relPathFromGit, index, dir) ==
    LET absPathFromGit == Normalize(PathJoin(dir, relPathFromGit))
        direct == [res EXCEPT !.directChangesSet = SetAdd(@, relPathFromGit)]
    IN  IF MapHas(index, absPathFromGit)
        THEN LET containerRelPaths == ContainerRelPaths(index[absPathFromGit], dir, <<>>)
             IN  IF Len(containerRelPaths) > 0
                 THEN [res EXCEPT !.impactDetailsMap =
                                     MapSet(@, relPathFromGit, Sort(containerRelPaths))]
                 ELSE direct
        ELSE direct

RECURSIVE ClassifyAll(_, _, _, _)
ClassifyAll(res, changed, index, dir) ==
    IF changed = <<>> THEN res
    ELSE ClassifyAll(ClassifyOne(res, Head(changed), index, dir), Tail(changed), index, dir)

\* Lines 173-202: the classification of the changed files against an index.
Classify(changed, index, dir) ==
    LET res == ClassifyAll([impactDetailsMap |-> EmptyMap, directChangesSet |-> <<>>],
                           changed, index, dir)
    IN  [impactDetailsMap |-> res.impactDetailsMap,
         directChanges |-> Sort(res.directChangesSet)]

-----------------------------------------------------------------------------
(* createNetlifyMarkdownLink: src/src/index.ts and the two variants.       *)

SourcePrefix == <<"source", "/">>
DotTxt == <<".", "txt">>
DotRst == <<".", "rst">>

\* netlifyBaseUrl.replace(/\/$/, "")
StripTrailingSlash(url) ==
    IF EndsWith(url, SEP) THEN SubSeq(url, 1, Len(url) - 1) ELSE url

MarkdownLink(text, url) == <<"[">> \o text \o <<"]", "(">> \o url \o <<")">>

createNetlifyMarkdownLink(fileRelPath, netlifyBaseUrl) ==
    IF netlifyBaseUrl = <<>> THEN fileRelPath
    ELSE LET pathParts == Split(fileRelPath, SEP)
         IN  IF Len(pathParts) = 0 THEN fileRelPath
             ELSE IF pathParts[1] # <<"source">> THEN fileRelPath
             ELSE IF Len(pathParts) > 1 /\ pathParts[2] \in IGNORED_DIRS_FOR_NETLIFY_LINKS
                  THEN fileRelPath
             ELSE LET stripped == IF StartsWith(fileRelPath, SourcePrefix)
                                  THEN Substring(fileRelPath, Len(SourcePrefix))
                                  ELSE IF fileRelPath = <<"source">> THEN <<>>
                                  ELSE fileRelPath
                      noExt == IF EndsWith(stripped, DotTxt)
                               THEN SubSeq(stripped, 1, Len(stripped) - Len(DotTxt))
                               ELSE IF EndsWith(stripped, DotRst)
                                    THEN SubSeq(stripped, 1, Len(stripped) - Len(DotRst))
                                    ELSE stripped
                      linkTargetPath == IF ~StartsWith(noExt, SEP) THEN SEP \o noExt ELSE noExt
                      finalNetlifyUrl == StripTrailingSlash(netlifyBaseUrl) \o linkTargetPath
                  IN  MarkdownLink(fileRelPath, finalNetlifyUrl)

\* fileRelPath.replace(/^source\//, '').replace(/\.txt$|\.rst$/, '')
ReplaceSourceAndExtension(fileRelPath) ==
    LET stripped == IF StartsWith(fileRelPath, SourcePrefix)
                    THEN Substring(fileRelPath, Len(SourcePrefix))
                    ELSE fileRelPath
    IN  IF EndsWith(stripped, DotTxt) \/ EndsWith(stripped, DotRst)
        THEN SubSeq(stripped, 1, Len(stripped) - 2)
        ELSE stripped

\* The variant of src/unnamed/part_000.
createNetlifyMarkdownLink_part000(fileRelPath, netlifyBaseUrl) ==
    IF netlifyBaseUrl = <<>> THEN fileRelPath
    ELSE LET replaced == ReplaceSourceAndExtension(fileRelPath)
             linkTargetPath == IF ~StartsWith(replaced, SEP) THEN SEP \o replaced ELSE replaced
             finalNetlifyUrl == StripTrailingSlash(netlifyBaseUrl) \o linkTargetPath
         IN  MarkdownLink(fileRelPath, finalNetlifyUrl)

\* The variant of src/unnamed/part_001.
createNetlifyMarkdownLink_part001(fileRelPath, netlifyBaseUrl) ==
    IF netlifyBaseUrl = <<>> THEN fileRelPath
    ELSE LET replaced == ReplaceSourceAndExtension(fileRelPath)
             linkTargetPath == IF ~StartsWith(replaced, SEP) THEN SEP \o replaced ELSE replaced
             finalNetlifyUrl == StripTrailingSlash(netlifyBaseUrl) \o linkTargetPath
         IN  MarkdownLink(fileRelPath, finalNetlifyUrl)

-----------------------------------------------------------------------------
(* getChangedFiles and the onSuccess function of src/src/index.ts.         *)

RECURSIVE TrimNonEmpty(_)
\* .map(line => line.trim()).filter(line => line.length > 0)
TrimNonEmpty(lines) ==
    IF lines = <<>> THEN <<>>
    ELSE LET t == Trim(Head(lines))
         IN  (IF Len(t) > 0 THEN <<t>> ELSE <<>>) \o TrimNonEmpty(Tail(lines))

\* The files it returns and the number of execSync calls it makes; `diff` is
\* what the git process does when it is run.
getChangedFiles(prBase, prHead, diff) ==
    IF prBase = <<>> \/ prHead = <<>>
    THEN [files |-> <<>>, execSync |-> 0]
    ELSE IF diff.throws
         THEN [files |-> <<>>, execSync |-> 1]
         ELSE [files |-> TrimNonEmpty(Split(diff.stdout, <<"\n">>)), execSync |-> 1]

RECURSIVE SeqOfSet(_)
SeqOfSet(S) ==
    IF S = {} THEN <<>> ELSE LET x == CHOOSE y \in S : TRUE IN <<x>> \o SeqOfSet(S \ {x})

RECURSIVE ContainerLines(_, _)
\* Lines 254-257
ContainerLines(containerFilesRelPaths, url) ==
    IF containerFilesRelPaths = <<>> THEN <<>>
    ELSE <<<<"    - ">> \o createNetlifyMarkdownLink(Head(containerFilesRelPaths), url)>>
         \o ContainerLines(Tail(containerFilesRelPaths), url)

RECURSIVE ImpactLines(_, _, _)
\* Lines 249-258
ImpactLines(sortedIncludeFiles, impact, url) ==
    IF sortedIncludeFiles = <<>> THEN <<>>
    ELSE LET includeFileRelPath == Head(sortedIncludeFiles)
         IN  <<<<"\n**Changed Include Page:** ">>
                   \o createNetlifyMarkdownLink(includeFileRelPath, url),
               <<"  *Is included in:*">>>>
             \o ContainerLines(impact[includeFileRelPath], url)
             \o ImpactLines(Tail(sortedIncludeFiles), impact, url)

RECURSIVE DirectLines(_, _)
\* Lines 264-267
DirectLines(direct, url) ==
    IF direct = <<>> THEN <<>>
    ELSE <<<<"- ">> \o createNetlifyMarkdownLink(Head(direct), url)>>
         \o DirectLines(Tail(direct), url)

\* Lines 241-284: the report of a run that found changed files.
DependencyReport(impact, direct, url) ==
    LET impactPart ==
            IF Cardinality(DOMAIN impact) > 0
            THEN <<<<"## Pages Impacted by Changes to Includes">>>>
                 \o ImpactLines(Sort(SeqOfSet(DOMAIN impact)), impact, url)
            ELSE <<>>
        directPart ==
            IF Len(direct) > 0
            THEN <<<<"\n## Other Directly Modified Pages">>>> \o DirectLines(direct, url)
            ELSE IF Cardinality(DOMAIN impact) > 0
                 THEN <<<<"\n## Other Directly Modified Pages">>,
                        <<"(No other directly modified files)">>>>
                 ELSE <<>>
        overallChangesFound == Cardinality(DOMAIN impact) > 0 \/ Len(direct) > 0
        markdownOutputLines ==
            impactPart \o directPart
            \o (IF ~overallChangesFound
                THEN <<<<"\nNo documentation changes requiring review based on include dependencies.">>>>
                ELSE <<>>)
    IN  [title |-> "Documentation Include Dependency Check",
         summary |-> IF overallChangesFound
                     THEN "Processed include dependencies for changed files."
                     ELSE "No impactful documentation changes detected.",
         text |-> Join(markdownOutputLines, <<"\n">>)]

\* Lines 229-233: the report of a run that found no changed file.
NoChangesReport(BRANCH, HEAD) ==
    [title |-> "Include Dependency Check",
     summary |-> "No file changes detected between specified branches.",
     text |-> <<"Compared base '">> \o BRANCH \o <<"' with head '">> \o HEAD
              \o <<"'. No relevant file changes found by git diff.">>]

\* Lines 206-289: what one call of the function `onSuccess` does to its
\* collaborators: the failPlugin calls, the status.show calls, the execSync calls.
onSuccess(cons, diff, tree, directoryToScrape) ==
    IF cons.BRANCH = <<>>
    THEN [failPlugin |-> <<"Error: BRANCH environment variable (PR base branch) not set.">>,
          status |-> <<>>, execSync |-> 0]
    ELSE IF cons.HEAD = <<>>
    THEN [failPlugin |-> <<"Error: HEAD environment variable (PR head ref) not set.">>,
          status |-> <<>>, execSync |-> 0]
    ELSE LET got == getChangedFiles(cons.BRANCH, cons.HEAD, diff)
         IN  IF Len(got.files) = 0
             THEN [failPlugin |-> <<>>,
                   status |-> <<NoChangesReport(cons.BRANCH, cons.HEAD)>>,
                   execSync |-> got.execSync]
             ELSE LET res == Classify(got.files, BuildIndex(tree, directoryToScrape),
                                      directoryToScrape)
                  IN  [failPlugin |-> <<>>,
                       status |-> <<DependencyReport(res.impactDetailsMap, res.directChanges,
                                                     cons.DEPLOY_PRIME_URL)>>,
                       execSync |-> got.execSync]

-----------------------------------------------------------------------------
(* Inputs: the trees, changed-file lists and indices the runs are given.   *)

Cwd == <<"/", "repo">>                           \* process.cwd()
Abs(rel) == Cwd \o SEP \o rel

R_page == <<"source", "/", "page", ".", "rst">>
R_foo == <<"source", "/", "includes", "/", "foo", ".", "rst">>
R_fooDot == <<"source", "/", ".", "/", "includes", "/", "foo", ".", "rst">>
R_a == <<"source", "/", "a", ".", "txt">>
R_other == <<"source", "/", "other", ".", "rst">>
R_md == <<"source", "/", "page", ".", "md">>
R_nm == <<"node_modules", "/", "page", ".", "rst">>
P_outside == <<"/", "elsewhere", "/", "page", ".", "rst">>

\* `.. include:: /includes/foo.rst`
L_abs == IncludeMarker \o <<" ", "/", "includes", "/", "foo", ".", "rst">>
\* `  .. literalinclude:: ../source/includes/foo.rst ` (relative to the includer)
L_rel == <<" ", " ">> \o LiteralIncludeMarker
         \o <<" ", ".", ".", "/", "source", "/", "includes", "/", "foo", ".", "rst", " ">>
\* `.. include:: /page.rst`
L_page == IncludeMarker \o <<" ", "/", "page", ".", "rst">>
\* `.. include:: /includes/foo.rst::x`
L_colons == IncludeMarker \o <<" ", "/", "includes", "/", "foo", ".", "rst", ":", ":", "x">>
\* `text .. include:: /includes/foo.rst` (the marker is not at the start)
L_text == <<"text", " ">> \o L_abs

\* The lines that may be written, each into the files named with it.
TreeWrites ==
    ({Abs(R_page)} \X {L_abs, L_rel, L_colons, L_text})
    \cup ({Abs(R_a)} \X {L_abs, L_page})
    \cup ({Abs(R_foo)} \X {L_page})
    \cup ({Abs(R_md)} \X {L_abs})
    \cup ({Abs(R_nm)} \X {L_abs})

\* The tree after appending `line` to the file at `path` (created if absent).
WriteLine(tree, path, line) ==
    IF IsFile(tree, path)
    THEN [i \in 1..Len(tree) |->
            IF tree[i].path = path
            THEN [tree[i] EXCEPT !.content = @ \o <<"\n">> \o line]
            ELSE tree[i]]
    ELSE Append(tree, [path |-> path, content |-> line])

RECURSIVE TreeOf(_)
TreeOf(writes) ==
    IF writes = <<>> THEN <<>>
    ELSE LET w == writes[Len(writes)]
         IN  WriteLine(TreeOf(SubSeq(writes, 1, Len(writes) - 1)), w[1], w[2])

Trees == {TreeOf(w) : w \in SeqsUpTo(TreeWrites, MaxWrites)}

ChangedPaths == {R_foo, R_page, R_other}
ChangedLists == SeqsUpTo(ChangedPaths, MaxChanged)

NoDup(xs) == \A i, j \in 1..Len(xs) : xs[i] = xs[j] => i = j

\* Hand-made indices: any includer sets, inside the root or not.
IndexKeys == {Abs(R_foo), Abs(R_page)}
IndexIncluders == {Abs(R_page), Abs(R_a), P_outside, Cwd}
IncluderSets == {xs \in SeqsUpTo(IndexIncluders, MaxIncluders) : NoDup(xs)}
Indices == UNION {[K -> IncluderSets] : K \in SUBSET IndexKeys}
ClassifyChanged == SeqsUpTo({R_foo, R_fooDot, R_page, R_other}, MaxChanged)

-----------------------------------------------------------------------------
(* The parts of the state a specification does not use.                    *)

ResolveIdle ==
    /\ directory = Cwd
    /\ fs = <<>>
    /\ changedFilesFromGit = <<>>
    /\ includeDependencies = <<>>
    /\ impactDetailsMap = <<>>
    /\ directChanges = <<>>

PathIdle ==
    /\ directive = <<>>
    /\ includer = <<>>
    /\ resolved = <<>>

ExtractIdle == extractPath = <<>> /\ includeFiles = <<>>

LinkIdle == linkPath = <<>> /\ linkBaseUrl = <<>> /\ markdownLink = <<>>

ScanIdle ==
    /\ unreadable = {}
    /\ scanned = <<>>
    /\ thrown = FALSE
    /\ git = <<>>
    /\ impactedFilesMap = <<>>

BuildIdle ==
    /\ constants = <<>>
    /\ gitDiff = <<>>
    /\ statusShown = <<>>
    /\ failPluginCalls = <<>>
    /\ execSyncCalls = 0
    /\ consoleLog = <<>>

-----------------------------------------------------------------------------
(* resolveIncludeDependencies over a tree (lines 146-203).                 *)

InitResolve ==
    /\ pc = "scan"
    /\ directory = Cwd
    /\ fs \in Trees
    /\ changedFilesFromGit = <<>>
    /\ includeDependencies = EmptyMap
    /\ impactDetailsMap = EmptyMap
    /\ directChanges = <<>>
    /\ PathIdle /\ ExtractIdle /\ LinkIdle /\ BuildIdle /\ ScanIdle

\* The whole function: the index is built from the tree (lines 147-171), then
\* the changed files are classified against it (lines 173-202).
ResolveIncludeDependencies ==
    /\ pc = "scan"
    /\ \E built \in {BuildIndex(fs, directory)} :
       \E changed \in ChangedLists :
       \E res \in {Classify(changed, built, directory)} :
          /\ changedFilesFromGit' = changed
          /\ includeDependencies' = built
          /\ impactDetailsMap' = res.impactDetailsMap
          /\ directChanges' = res.directChanges
    /\ pc' = "resolved"
    /\ UNCHANGED <<scanVars, directory, fs, pathVars, extractVars, linkVars, buildVars>>

NextResolve == ResolveIncludeDependencies

SpecResolve == InitResolve /\ [][NextResolve]_vars

-----------------------------------------------------------------------------
(* The classification loop alone (lines 173-202), over any index.          *)

InitClassify ==
    /\ pc = "indexed"
    /\ directory = Cwd
    /\ fs = <<>>
    /\ changedFilesFromGit \in ClassifyChanged
    /\ includeDependencies \in Indices
    /\ impactDetailsMap = EmptyMap
    /\ directChanges = <<>>
    /\ PathIdle /\ ExtractIdle /\ LinkIdle /\ BuildIdle /\ ScanIdle

ClassifyChangedFiles ==
    /\ pc = "indexed"
    /\ \E res \in {Classify(changedFilesFromGit, includeDependencies, directory)} :
          /\ impactDetailsMap' = res.impactDetailsMap
          /\ directChanges' = res.directChanges
    /\ pc' = "classified"
    /\ UNCHANGED <<scanVars, directory, fs, changedFilesFromGit, includeDependencies,
                   pathVars, extractVars, linkVars, buildVars>>

NextClassify == ClassifyChangedFiles

SpecClassify == InitClassify /\ [][NextClassify]_vars

-----------------------------------------------------------------------------
(* The path resolution of one directive (lines 152-164).                   *)

PathTargets ==
    {<<"/", "includes", "/", "foo", ".", "rst">>,
     <<"/", ".", ".", "/", "page", ".", "rst">>,
     <<"/", "/", "page", ".", "rst">>,
     <<"includes", "/", "foo", ".", "rst">>,
     <<".", ".", "/", "page", ".", "rst">>,
     <<".", "/", "foo", ".", "rst", "/">>}
PathIncluders ==
    {Abs(R_page), Abs(R_a), Abs(R_foo), Abs(R_nm),
     <<"/", "elsewhere", "/", "source", "/", "page", ".", "rst">>}
PathDirectories == {Cwd, <<"/", "elsewhere">>, <<"/", "repo", "/", "source">>}

InitPath ==
    /\ pc = "directive"
    /\ directive \in PathTargets
    /\ includer \in PathIncluders
    /\ directory \in PathDirectories
    /\ resolved = <<>>
    /\ fs = <<>> /\ changedFilesFromGit = <<>> /\ includeDependencies = <<>>
    /\ impactDetailsMap = <<>> /\ directChanges = <<>>
    /\ ExtractIdle /\ LinkIdle /\ BuildIdle /\ ScanIdle

ResolveDirective ==
    /\ pc = "directive"
    /\ resolved' = ResolveTarget(directive, includer, directory)
    /\ pc' = "located"
    /\ UNCHANGED <<scanVars, resolveVars, directive, includer, extractVars, linkVars, buildVars>>

NextPath == ResolveDirective

SpecPath == InitPath /\ [][NextPath]_vars

-----------------------------------------------------------------------------
(* extractIncludeFiles on one file (lines 85-111).                         *)

MaxLines == 2       \* lines of the file read by extractIncludeFiles

\* `.. include::   ` (nothing after the separator)
L_empty == IncludeMarker \o <<" ", " ">>
\* `.. literalinclude::foo.rst` (no blank after the separator)
L_tight == LiteralIncludeMarker \o <<"foo", ".", "rst">>
\* `.. include: /page.rst` (one colon)
L_oneColon == <<".", ".", " ", "include", ":", " ", "/", "page", ".", "rst">>

ExtractLineKinds == {L_abs, L_rel, L_colons, L_empty, L_tight, L_oneColon, L_text}

InitExtract ==
    /\ pc = "read"
    /\ \E lines \in SeqsUpTo(ExtractLineKinds, MaxLines) :
          fs = <<[path |-> Abs(R_page), content |-> Join(lines, <<"\n">>)]>>
    /\ extractPath \in {Abs(R_page), Abs(R_other)}
    /\ includeFiles = <<>>
    /\ directory = Cwd /\ changedFilesFromGit = <<>> /\ includeDependencies = <<>>
    /\ impactDetailsMap = <<>> /\ directChanges = <<>>
    /\ PathIdle /\ LinkIdle /\ BuildIdle /\ ScanIdle

ExtractIncludeFiles ==
    /\ pc = "read"
    /\ includeFiles' = extractIncludeFiles(fs, extractPath)
    /\ pc' = "extracted"
    /\ UNCHANGED <<scanVars, resolveVars, pathVars, extractPath, linkVars, buildVars>>

NextExtract == ExtractIncludeFiles

SpecExtract == InitExtract /\ [][NextExtract]_vars

-----------------------------------------------------------------------------
(* createNetlifyMarkdownLink, in each of its three implementations.        *)

U_slash == <<"https", ":", "/", "/", "x", ".", "test", "/">>     \* https://x.test/
U_plain == <<"https", ":", "/", "/", "x", ".", "test">>          \* https://x.test
R_pageTxt == <<"source", "/", "page", ".", "txt">>

LinkPaths ==
    {R_foo, R_pageTxt, R_page, R_md,
     <<"source", "/", "images", "/", "x", ".", "rst">>,
     <<"source", "/", "examples", "/", "a", ".", "txt">>,
     <<"source", "/", "a", ".", "txt", ".", "rst">>,
     <<"other", "/", "page", ".", "rst">>,
     <<"page", ".", "rst">>,
     <<"source">>}
LinkBaseUrls == {<<>>, U_slash, U_plain}

InitLink ==
    /\ pc = "link"
    /\ linkPath \in LinkPaths
    /\ linkBaseUrl \in LinkBaseUrls
    /\ markdownLink = <<>>
    /\ ResolveIdle /\ PathIdle /\ ExtractIdle /\ BuildIdle /\ ScanIdle

CreateLinkIndex ==
    /\ pc = "link"
    /\ markdownLink' = createNetlifyMarkdownLink(linkPath, linkBaseUrl)
    /\ pc' = "linked index.ts"
    /\ UNCHANGED <<scanVars, resolveVars, pathVars, extractVars, linkPath, linkBaseUrl, buildVars>>

CreateLinkPart000 ==
    /\ pc = "link"
    /\ markdownLink' = createNetlifyMarkdownLink_part000(linkPath, linkBaseUrl)
    /\ pc' = "linked part_000"
    /\ UNCHANGED <<scanVars, resolveVars, pathVars, extractVars, linkPath, linkBaseUrl, buildVars>>

CreateLinkPart001 ==
    /\ pc = "link"
    /\ markdownLink' = createNetlifyMarkdownLink_part001(linkPath, linkBaseUrl)
    /\ pc' = "linked part_001"
    /\ UNCHANGED <<scanVars, resolveVars, pathVars, extractVars, linkPath, linkBaseUrl, buildVars>>

NextLink == CreateLinkIndex \/ CreateLinkPart000 \/ CreateLinkPart001

SpecLink == InitLink /\ [][NextLink]_vars

-----------------------------------------------------------------------------
(* The build of src/src/index.ts: the host fires onPreBuild, builds, and   *)
(* on success fires onSuccess; the extension's registered handlers run.    *)

RefValues == {<<>>, <<"main">>}                 \* absent, or a reference
DiffOutcomes ==
    {[throws |-> TRUE, stdout |-> <<>>],
     [throws |-> FALSE, stdout |-> <<>>],
     [throws |-> FALSE, stdout |-> R_foo \o <<"\n">>],
     [throws |-> FALSE, stdout |-> R_page \o <<"\n">> \o R_foo \o <<"\n">> \o R_other \o <<"\n">>]}
BuildTrees ==
    {<<>>,
     TreeOf(<<<<Abs(R_page), L_abs>>>>),
     TreeOf(<<<<Abs(R_page), L_abs>>, <<Abs(R_a), L_page>>>>)}

InitBuildInputs ==
    /\ directory = Cwd
    /\ fs \in BuildTrees
    /\ constants \in [BRANCH : RefValues, HEAD : RefValues, DEPLOY_PRIME_URL : {<<>>, U_slash}]
    /\ gitDiff \in DiffOutcomes
    /\ statusShown = <<>>
    /\ failPluginCalls = <<>>
    /\ execSyncCalls = 0
    /\ consoleLog = <<>>
    /\ changedFilesFromGit = <<>> /\ includeDependencies = <<>>
    /\ impactDetailsMap = <<>> /\ directChanges = <<>>
    /\ PathIdle /\ ExtractIdle /\ LinkIdle /\ ScanIdle

Init == pc = "onPreBuild" /\ InitBuildInputs

\* Lines 10-15: the onPreBuild handler returns, enabled or not.
OnPreBuild ==
    /\ pc = "onPreBuild"
    /\ pc' = "build"
    /\ UNCHANGED <<scanVars, resolveVars, pathVars, extractVars, linkVars, buildVars>>

\* The host's build step: it succeeds, or it fails and onSuccess is not fired.
HostBuild ==
    /\ pc = "build"
    /\ pc' \in {"onSuccess", "build failed"}
    /\ UNCHANGED <<scanVars, resolveVars, pathVars, extractVars, linkVars, buildVars>>

\* Lines 17-290: the handler registered for onSuccess logs one line and
\* declares its constants and functions, the function `onSuccess` (line 206)
\* among them; it calls none of them and makes no use of `utils`.
OnSuccessHandler ==
    /\ pc = "onSuccess"
    /\ consoleLog' = Append(consoleLog,
                            "Extension ran successfully. Checking if any files changed...")
    /\ pc' = "handled"
    /\ UNCHANGED <<scanVars, resolveVars, pathVars, extractVars, linkVars,
                   constants, gitDiff, statusShown, failPluginCalls, execSyncCalls>>

Next == OnPreBuild \/ HostBuild \/ OnSuccessHandler

Spec == Init /\ [][Next]_vars

-----------------------------------------------------------------------------
(* The function `onSuccess` of lines 206-289, called by itself.            *)

InitCall == pc = "call" /\ InitBuildInputs

CallOnSuccess ==
    /\ pc = "call"
    /\ \E eff \in {onSuccess(constants, gitDiff, fs, directory)} :
          /\ statusShown' = statusShown \o eff.status
          /\ failPluginCalls' = failPluginCalls \o eff.failPlugin
          /\ execSyncCalls' = execSyncCalls + eff.execSync
    /\ pc' = "returned"
    /\ UNCHANGED <<scanVars, resolveVars, pathVars, extractVars, linkVars, constants, gitDiff, consoleLog>>

NextCall == CallOnSuccess

SpecCall == InitCall /\ [][NextCall]_vars

-----------------------------------------------------------------------------
(* The tree scanners under directory read failures: walkSync of            *)
(* src/src/index.ts, and walkSync of src/unnamed/part_000 and part_001.    *)

RECURSIVE walkSyncWarnings(_, _, _)
RECURSIVE WarningsOfDirents(_, _, _, _)
WarningsOfDirents(tree, dir, dirents, noRead) ==
    IF dirents = <<>> THEN <<>>
    ELSE LET dirent == Head(dirents)
             here == IF dirent.isDirectory /\ dirent.name \notin SkippedDirNames
                     THEN walkSyncWarnings(tree, PathJoin(dir, dirent.name), noRead)
                     ELSE <<>>
         IN  here \o WarningsOfDirents(tree, dir, Tail(dirents), noRead)

\* index.ts line 126: the console.warn lines of one scan, in order.
walkSyncWarnings(tree, dir, noRead) ==
    IF dir \in noRead THEN <<<<"Could not read directory ">> \o dir>>
    ELSE WarningsOfDirents(tree, dir, ReadDir(tree, dir), noRead)

\* What a generator without a catch gives its consumer: the files yielded,
\* and whether it ended by throwing.
Yielded(files) == [yielded |-> files, threw |-> FALSE]
Threw == [yielded |-> <<>>, threw |-> TRUE]

RECURSIVE walkSync_part000(_, _, _)
RECURSIVE WalkDirents_part000(_, _, _, _)
\* part_000 lines 90-98: the loop over the entries; an exception of a nested
\* generator leaves the loop.
WalkDirents_part000(tree, dir, dirents, noRead) ==
    IF dirents = <<>> THEN Yielded(<<>>)
    ELSE LET dirent == Head(dirents)
             fullPath == PathJoin(dir, dirent.name)
             here == IF dirent.isDirectory
                     THEN IF dirent.name \in SkippedDirNames THEN Yielded(<<>>)
                          ELSE walkSync_part000(tree, fullPath, noRead)
                     ELSE Yielded(<<fullPath>>)
         IN  IF here.threw THEN here
             ELSE LET rest == WalkDirents_part000(tree, dir, Tail(dirents), noRead)
                  IN  [yielded |-> here.yielded \o rest.yielded, threw |-> rest.threw]

\* part_000 lines 88-99: readdirSync is called outside any try.
walkSync_part000(tree, dir, noRead) ==
    IF dir \in noRead THEN Threw
    ELSE WalkDirents_part000(tree, dir, ReadDir(tree, dir), noRead)

RECURSIVE walkSync_part001(_, _, _)
RECURSIVE WalkDirents_part001(_, _, _, _)
\* part_001 lines 77-85
WalkDirents_part001(tree, dir, dirents, noRead) ==
    IF dirents = <<>> THEN Yielded(<<>>)
    ELSE LET dirent == Head(dirents)
             fullPath == PathJoin(dir, dirent.name)
             here == IF dirent.isDirectory
                     THEN IF dirent.name \in SkippedDirNames THEN Yielded(<<>>)
                          ELSE walkSync_part001(tree, fullPath, noRead)
                     ELSE Yielded(<<fullPath>>)
         IN  IF here.threw THEN here
             ELSE LET rest == WalkDirents_part001(tree, dir, Tail(dirents), noRead)
                  IN  [yielded |-> here.yielded \o rest.yielded, threw |-> rest.threw]

\* part_001 lines 75-86
walkSync_part001(tree, dir, noRead) ==
    IF dir \in noRead THEN Threw
    ELSE WalkDirents_part001(tree, dir, ReadDir(tree, dir), noRead)

MaxScanFiles == 3   \* files of a scanned tree

R_top == <<"top", ".", "rst">>
R_guide == <<"guides", "/", "intro", ".", "txt">>

ScanPaths == {Abs(R_top), Abs(R_page), Abs(R_md), Abs(R_foo), Abs(R_guide), Abs(R_nm)}
ScanTrees ==
    {[i \in DOMAIN ps |-> [path |-> ps[i], content |-> <<>>]] :
        ps \in {qs \in SeqsUpTo(ScanPaths, MaxScanFiles) : NoDup(qs)}}
ScanDirectories ==
    {Cwd, Abs(<<"source">>), Abs(<<"source", "/", "includes">>), Abs(<<"guides">>)}

InitScan ==
    /\ pc = "walk"
    /\ directory = Cwd
    /\ fs \in ScanTrees
    /\ unreadable \in SUBSET ScanDirectories
    /\ scanned = <<>>
    /\ thrown = FALSE
    /\ git = <<>>
    /\ impactedFilesMap = <<>>
    /\ changedFilesFromGit = <<>> /\ includeDependencies = <<>>
    /\ impactDetailsMap = <<>> /\ directChanges = <<>>
    /\ PathIdle /\ ExtractIdle /\ LinkIdle /\ BuildIdle

\* for (const f of walkSync(directory)) of index.ts, run to its end.
WalkSyncIndexTs ==
    /\ pc = "walk"
    /\ scanned' = walkSync(fs, directory, unreadable)
    /\ consoleLog' = consoleLog \o walkSyncWarnings(fs, directory, unreadable)
    /\ thrown' = FALSE
    /\ pc' = "walked index.ts"
    /\ UNCHANGED <<resolveVars, pathVars, extractVars, linkVars, unreadable, git,
                   impactedFilesMap, constants, gitDiff, statusShown, failPluginCalls,
                   execSyncCalls>>

\* for (const f of walkSync(directoryToScrape)) of part_000, run to its end
\* or to the exception that leaves it.
WalkSyncPart000 ==
    /\ pc = "walk"
    /\ \E walk \in {walkSync_part000(fs, directory, unreadable)} :
          /\ scanned' = walk.yielded
          /\ thrown' = walk.threw
    /\ pc' = "walked part_000"
    /\ UNCHANGED <<resolveVars, pathVars, extractVars, linkVars, buildVars, unreadable,
                   git, impactedFilesMap>>

WalkSyncPart001 ==
    /\ pc = "walk"
    /\ \E walk \in {walkSync_part001(fs, directory, unreadable)} :
          /\ scanned' = walk.yielded
          /\ thrown' = walk.threw
    /\ pc' = "walked part_001"
    /\ UNCHANGED <<resolveVars, pathVars, extractVars, linkVars, buildVars, unreadable,
                   git, impactedFilesMap>>

NextScan == WalkSyncIndexTs \/ WalkSyncPart000 \/ WalkSyncPart001

SpecScan == InitScan /\ [][NextScan]_vars

-----------------------------------------------------------------------------
(* The onSuccess handlers of src/unnamed/part_000 and part_001: the        *)
(* changed files under source/includes/ are matched as text.               *)

includesFolder == <<"source", "/", "includes", "/">>

\* String.prototype.includes
Includes(content, part) ==
    \E i \in 0..(Len(content) - Len(part)) : SubSeq(content, i + 1, i + Len(part)) = part

\* part_000 line 49, part_001 line 36
NamesChangedFile(content, changedFile) ==
    \/ Includes(content, IncludeMarker \o <<" ">> \o changedFile)
    \/ Includes(content, LiteralIncludeMarker \o <<" ">> \o changedFile)

\* impactedFilesMap is an object: its entries are kept in the order in which
\* the keys were first set.  part_000 lines 51-54.
PushImpacted(map, changedFile, relativeFilePath) ==
    IF \E i \in 1..Len(map) : map[i].includeFile = changedFile
    THEN [i \in 1..Len(map) |->
            IF map[i].includeFile = changedFile
            THEN [map[i] EXCEPT !.impactedFiles = Append(@, relativeFilePath)]
            ELSE map[i]]
    ELSE Append(map, [includeFile |-> changedFile, impactedFiles |-> <<relativeFilePath>>])

RECURSIVE MatchFiles(_, _, _, _, _)
\* part_000 lines 47-56: the loop over the files the generator has yielded.
MatchFiles(map, files, changedFile, tree, directoryToScrape) ==
    IF files = <<>> THEN map
    ELSE LET filePath == Head(files)
             content == ReadFile(tree, filePath)
             next == IF NamesChangedFile(content, changedFile)
                     THEN PushImpacted(map, changedFile,
                                       Relative(directoryToScrape, filePath))
                     ELSE map
         IN  MatchFiles(next, Tail(files), changedFile, tree, directoryToScrape)

RECURSIVE MatchChangedFiles(_, _, _, _, _)
\* part_000 lines 42-58: the loop over the changed files; `walk` is what
\* walkSync(directoryToScrape) gives each time it is called.  The files it
\* yielded before an exception have been matched when the exception leaves
\* the handler.
MatchChangedFiles(map, changedFiles, tree, directoryToScrape, walk) ==
    IF changedFiles = <<>> THEN [map |-> map, threw |-> FALSE]
    ELSE LET changedFile == Head(changedFiles)
         IN  IF StartsWith(changedFile, includesFolder)
             THEN LET next == MatchFiles(map, walk.yielded, changedFile, tree,
                                         directoryToScrape)
                  IN  IF walk.threw THEN [map |-> next, threw |-> TRUE]
                      ELSE MatchChangedFiles(next, Tail(changedFiles), tree,
                                             directoryToScrape, walk)
             ELSE MatchChangedFiles(map, Tail(changedFiles), tree, directoryToScrape, walk)

RECURSIVE ImpactedFileLines(_)
\* part_000 lines 68-71, on the links of the impacted files
ImpactedFileLines(linkedImpactedFiles) ==
    IF linkedImpactedFiles = <<>> THEN <<>>
    ELSE <<<<"    - ">> \o Head(linkedImpactedFiles)>>
         \o ImpactedFileLines(Tail(linkedImpactedFiles))

RECURSIVE IncludeFileLines(_)
\* part_000 lines 64-72, on the links of the entries
IncludeFileLines(linkedEntries) ==
    IF linkedEntries = <<>> THEN <<>>
    ELSE <<<<"\n[Changed Include File]: ">> \o Head(linkedEntries).includeFile,
           <<"  Is included in:">>>>
         \o ImpactedFileLines(Head(linkedEntries).impactedFiles)
         \o IncludeFileLines(Tail(linkedEntries))

\* part_000 lines 61-82: the report shown at the end of the handler.
SubstringReport(linkedEntries) ==
    LET lines == <<<<"--- Files impacted by changes to included content ---">>>>
                 \o IncludeFileLines(linkedEntries)
        markdownOutputLines ==
            IF Len(lines) = 1
            THEN Append(lines, <<"\nNo files impacted by changes to included content.">>)
            ELSE lines
    IN  [title |-> "Documentation Include Dependency Check",
         summary |-> "Processed include dependencies for changed files.",
         text |-> Join(markdownOutputLines, <<"\n">>)]

\* part_000 lines 22-26
GitUnavailableReport ==
    [title |-> "Documentation Include Dependency Check",
     summary |-> "Git utilities are not available.",
     text |-> <<"The plugin could not detect changed files because Git utilities are unavailable in this environment.">>]

\* part_000 lines 65 and 69
LinkEntries_part000(map, url) ==
    [i \in 1..Len(map) |->
        [includeFile |-> createNetlifyMarkdownLink_part000(map[i].includeFile, url),
         impactedFiles |->
            [j \in 1..Len(map[i].impactedFiles) |->
                createNetlifyMarkdownLink_part000(map[i].impactedFiles[j], url)]]]

\* part_001 lines 52 and 56
LinkEntries_part001(map, url) ==
    [i \in 1..Len(map) |->
        [includeFile |-> createNetlifyMarkdownLink_part001(map[i].includeFile, url),
         impactedFiles |->
            [j \in 1..Len(map[i].impactedFiles) |->
                createNetlifyMarkdownLink_part001(map[i].impactedFiles[j], url)]]]

\* part_000 lines 16-85: what the handler does with a `git` argument g: the
\* map it builds, the status.show calls, the console lines, and whether an
\* exception leaves it.
onSuccess_part000(g, url, tree, directoryToScrape, noRead) ==
    IF ~g.defined
    THEN [impacted |-> <<>>, status |-> <<GitUnavailableReport>>, threw |-> FALSE,
          log |-> <<"Checking if any files changed on git -----",
                    "Git utilities are not available. Skipping file change detection.">>]
    ELSE LET found == MatchChangedFiles(<<>>, g.modifiedFiles, tree, directoryToScrape,
                                        walkSync_part000(tree, directoryToScrape, noRead))
             before == <<"Checking if any files changed on git -----",
                         "Netlify Deploy Prime URL:", "Changed files from git:">>
         IN  IF found.threw
             THEN [impacted |-> found.map, status |-> <<>>, threw |-> TRUE, log |-> before]
             ELSE [impacted |-> found.map,
                   status |-> <<SubstringReport(LinkEntries_part000(found.map, url))>>,
                   threw |-> FALSE,
                   log |-> Append(before, "Markdown output lines:")]

\* part_001 lines 16-72; line 23 reads git.modifiedFiles with no check of git.
onSuccess_part001(g, url, tree, directoryToScrape, noRead) ==
    IF ~g.defined
    THEN [impacted |-> <<>>, status |-> <<>>, threw |-> TRUE,
          log |-> <<"Extension ran successfully. Checking if any files changed...">>]
    ELSE LET found == MatchChangedFiles(<<>>, g.modifiedFiles, tree, directoryToScrape,
                                        walkSync_part001(tree, directoryToScrape, noRead))
             before == <<"Extension ran successfully. Checking if any files changed...",
                         "Changed files from git:">>
         IN  IF found.threw
             THEN [impacted |-> found.map, status |-> <<>>, threw |-> TRUE, log |-> before]
             ELSE [impacted |-> found.map,
                   status |-> <<SubstringReport(LinkEntries_part001(found.map, url))>>,
                   threw |-> FALSE,
                   log |-> Append(before, "Markdown output lines:")]

MaxMatchWrites == 2   \* lines written into a tree of the substring handlers

\* `.. include:: source/includes/foo.rst`
L_src == IncludeMarker \o <<" ">> \o R_foo
\* `.. literalinclude:: source/includes/foo.rst`
L_litSrc == LiteralIncludeMarker \o <<" ">> \o R_foo
\* `.. literalinclude:: /includes/foo.rst`
L_litAbs == LiteralIncludeMarker \o <<" ", "/", "includes", "/", "foo", ".", "rst">>

MatchWrites ==
    ({Abs(R_page)} \X {L_abs, L_src, L_litSrc, L_litAbs})
    \cup ({Abs(R_md)} \X {L_abs, L_src})
    \cup ({Abs(R_foo)} \X {L_page})
    \cup ({Abs(R_nm)} \X {L_src})
MatchTrees == {TreeOf(w) : w \in SeqsUpTo(MatchWrites, MaxMatchWrites)}

GitValues ==
    {[defined |-> FALSE, modifiedFiles |-> <<>>]}
    \cup {[defined |-> TRUE, modifiedFiles |-> files] :
            files \in SeqsUpTo({R_foo, R_page}, MaxChanged)}

InitSubstring ==
    /\ pc = "onSuccess of variant"
    /\ directory = Cwd
    /\ fs \in MatchTrees
    /\ git \in GitValues
    /\ unreadable \in {{}, {Abs(<<"source", "/", "includes">>)}}
    /\ constants \in [DEPLOY_PRIME_URL : {<<>>, U_slash},
                       GIT_CHANGED_FILES_ENABLED : BOOLEAN]
    /\ gitDiff = <<>>
    /\ statusShown = <<>>
    /\ failPluginCalls = <<>>
    /\ execSyncCalls = 0
    /\ consoleLog = <<>>
    /\ scanned = <<>>
    /\ thrown = FALSE
    /\ impactedFilesMap = <<>>
    /\ changedFilesFromGit = <<>> /\ includeDependencies = <<>>
    /\ impactDetailsMap = <<>> /\ directChanges = <<>>
    /\ PathIdle /\ ExtractIdle /\ LinkIdle

\* The onSuccess event in a build of part_000.  The handler is registered
\* only when GIT_CHANGED_FILES_ENABLED is 'true' (lines 11-16).
OnSuccessPart000 ==
    /\ pc = "onSuccess of variant"
    /\ IF constants.GIT_CHANGED_FILES_ENABLED
       THEN \E eff \in {onSuccess_part000(git, constants.DEPLOY_PRIME_URL, fs,
                                          directory, unreadable)} :
               /\ impactedFilesMap' = eff.impacted
               /\ statusShown' = statusShown \o eff.status
               /\ consoleLog' = consoleLog \o eff.log
               /\ thrown' = eff.threw
       ELSE UNCHANGED <<impactedFilesMap, statusShown, consoleLog, thrown>>
    /\ pc' = "handled part_000"
    /\ UNCHANGED <<resolveVars, pathVars, extractVars, linkVars, unreadable, scanned, git,
                   constants, gitDiff, failPluginCalls, execSyncCalls>>

\* The onSuccess event in a build of part_001 (the handler is always registered).
OnSuccessPart001 ==
    /\ pc = "onSuccess of variant"
    /\ \E eff \in {onSuccess_part001(git, constants.DEPLOY_PRIME_URL, fs,
                                       directory, unreadable)} :
          /\ impactedFilesMap' = eff.impacted
          /\ statusShown' = statusShown \o eff.status
          /\ consoleLog' = consoleLog \o eff.log
          /\ thrown' = eff.threw
    /\ pc' = "handled part_001"
    /\ UNCHANGED <<resolveVars, pathVars, extractVars, linkVars, unreadable, scanned, git,
                   constants, gitDiff, failPluginCalls, execSyncCalls>>

NextSubstring == OnSuccessPart000 \/ OnSuccessPart001

SpecSubstring == InitSubstring /\ [][NextSubstring]_vars

-----------------------------------------------------------------------------
(* What the claims say, stated on the tree and the inputs themselves.      *)

StrictlySorted(xs) == \A i \in 1..(Len(xs) - 1) : StrLess(xs[i], xs[i + 1])

Keys(m) == DOMAIN m

\* The location a changed file names: normalize(root + f).
ChangedAbs(f, dir) == Normalize(dir \o SEP \o f)

\* The raw target of a directive line: the whole remainder of the trimmed line
\* after the first "::", trimmed; the empty sequence for any other line.
DirectiveTarget(line) ==
    LET t == Trim(line)
    IN  IF StartsWith(t, IncludeMarker) THEN Trim(Substring(t, Len(IncludeMarker)))
        ELSE IF StartsWith(t, LiteralIncludeMarker)
             THEN Trim(Substring(t, Len(LiteralIncludeMarker)))
             ELSE <<>>

DirectiveTargets(content) ==
    {DirectiveTarget(l) : l \in Range(Split(content, <<"\n">>))} \ {<<>>}

\* A scanned candidate: a file of the tree under dir, with extension .rst or
\* .txt, none of whose directories below dir is .git or node_modules.
IsCandidate(tree, dir, p) ==
    /\ IsFile(tree, p)
    /\ StartsWith(p, dir \o SEP)
    /\ EndsWith(p, <<".", "rst">>) \/ EndsWith(p, <<".", "txt">>)
    /\ LET below == Split(Substring(p, Len(dir) + 1), SEP)
       IN  \A i \in 1..(Len(below) - 1) : below[i] \notin SkippedDirNames

\* The candidates holding a directive whose resolved target is the changed file f.
Includers(tree, dir, f) ==
    {e.path : e \in {x \in Range(tree) :
        /\ IsCandidate(tree, dir, x.path)
        /\ \E t \in DirectiveTargets(x.content) :
              ResolveTarget(t, x.path, dir) = ChangedAbs(f, dir)}}

RootRelative(dir, p) == Substring(p, Len(dir) + 1)

-----------------------------------------------------------------------------
(* Claims about the classification (SpecClassify).                         *)

\* An index entry exists for f, and none of its includers lies in the root.
NoValidIncluder(f) ==
    /\ MapHas(includeDependencies, ChangedAbs(f, directory))
    /\ \A c \in Range(includeDependencies[ChangedAbs(f, directory)]) :
          ~InsideDirectory(c, directory)

\* C1: the result of the classification is a strict partition of the input:
\* every changed file is a key of impactDetailsMap or a member of
\* directChanges and never both, nothing else is in either, and a file whose
\* index entry holds no includer inside the root is in directChanges only.
C1_StrictPartition ==
    pc = "classified" =>
        /\ \A f \in Range(changedFilesFromGit) :
              (f \in Keys(impactDetailsMap)) # (f \in Range(directChanges))
        /\ Keys(impactDetailsMap) \cup Range(directChanges) = Range(changedFilesFromGit)
        /\ NoDup(directChanges)
        /\ \A f \in Range(changedFilesFromGit) :
              NoValidIncluder(f) =>
                  f \in Range(directChanges) /\ f \notin Keys(impactDetailsMap)

C1_Witness ==
    /\ pc = "classified"
    /\ \E f \in Range(changedFilesFromGit) :
          /\ NoValidIncluder(f)
          /\ includeDependencies[ChangedAbs(f, directory)] # <<>>
          /\ f \in Range(directChanges)
    /\ Keys(impactDetailsMap) # {}

\* C2 as stated: the keys of impacted and the direct changes together count
\* as many as the changed-file list is long.
C2_CountsListLength ==
    pc = "classified" =>
        Cardinality(Keys(impactDetailsMap)) + Len(directChanges)
            = Len(changedFilesFromGit)

\* C2 as amended: they count as many as the list holds distinct paths (its
\* length when no path repeats).
C2_CountsDistinctPaths ==
    pc = "classified" =>
        Cardinality(Keys(impactDetailsMap)) + Len(directChanges)
            = Cardinality(Range(changedFilesFromGit))

C2_Witness ==
    /\ pc = "classified"
    /\ Len(changedFilesFromGit) = MaxChanged
    /\ Cardinality(Range(changedFilesFromGit)) < Len(changedFilesFromGit)
    /\ Len(directChanges) = 1

-----------------------------------------------------------------------------
(* Claims about the build followed by the classification (SpecResolve).    *)

\* C3: a changed file is a key of impacted exactly when some scanned
\* candidate holds a directive whose resolved target is that file; its record
\* is then exactly the root-relative paths of those candidates, and otherwise
\* the file is in direct.
C3_ImpactedIffIncluded ==
    pc = "resolved" =>
        \A f \in Range(changedFilesFromGit) :
            LET inc == Includers(fs, directory, f)
            IN  IF inc # {}
                THEN /\ f \in Keys(impactDetailsMap)
                     /\ Range(impactDetailsMap[f]) = {RootRelative(directory, c) : c \in inc}
                     /\ f \notin Range(directChanges)
                ELSE /\ f \notin Keys(impactDetailsMap)
                     /\ f \in Range(directChanges)

\* C4: every includer list of impacted is lexicographically sorted and has no
\* duplicates, and it lists every candidate that includes the target.
C4_SortedNoDuplicates ==
    pc = "resolved" =>
        \A f \in Keys(impactDetailsMap) :
            /\ StrictlySorted(impactDetailsMap[f])
            /\ \A c \in Includers(fs, directory, f) :
                  RootRelative(directory, c) \in Range(impactDetailsMap[f])

\* Two files include source/includes/foo.rst, the one enumerated first sorts
\* last and includes it twice under different spellings.
C4_Witness ==
    /\ pc = "resolved"
    /\ fs = <<[path |-> Abs(R_page), content |-> L_abs \o <<"\n">> \o L_rel],
              [path |-> Abs(R_a), content |-> L_abs]>>
    /\ R_foo \in Keys(impactDetailsMap)
    /\ impactDetailsMap[R_foo] = <<R_a, R_page>>

\* C10: resolution is single-level: no includer is reported for a changed
\* file unless it holds a directive resolving to that file itself, and when
\* A includes B and B includes the changed file, B is listed and A is not.
C10_SingleLevel ==
    pc = "resolved" =>
        \A f \in Range(changedFilesFromGit) :
            LET listed == IF f \in Keys(impactDetailsMap)
                          THEN Range(impactDetailsMap[f]) ELSE {}
            IN  /\ \A r \in listed : Abs(r) \in Includers(fs, directory, f)
                /\ \A b \in Includers(fs, directory, f) :
                      /\ RootRelative(directory, b) \in listed
                      /\ \A a \in Includers(fs, directory, RootRelative(directory, b)) :
                            a \notin Includers(fs, directory, f)
                                => RootRelative(directory, a) \notin listed

\* What the code's own extraction finds: the candidates from which
\* extractIncludeFiles returns a target resolving to the changed file f.
ExtractedIncluders(tree, dir, f) ==
    {p \in {e.path : e \in Range(tree)} :
        /\ IsCandidate(tree, dir, p)
        /\ \E t \in Range(extractIncludeFiles(tree, p)) :
              ResolveTarget(t, p, dir) = ChangedAbs(f, dir)}

\* C3 and C10 with "a directive of the file" read as "a target that
\* extractIncludeFiles returns for the file": this much holds of the code.
Lemma_ImpactedIffExtracted ==
    pc = "resolved" =>
        \A f \in Range(changedFilesFromGit) :
            LET inc == ExtractedIncluders(fs, directory, f)
            IN  IF inc # {}
                THEN /\ f \in Keys(impactDetailsMap)
                     /\ Range(impactDetailsMap[f]) = {RootRelative(directory, c) : c \in inc}
                     /\ f \notin Range(directChanges)
                ELSE /\ f \notin Keys(impactDetailsMap)
                     /\ f \in Range(directChanges)

Lemma_SingleLevelExtracted ==
    pc = "resolved" =>
        \A f \in Range(changedFilesFromGit) :
            LET listed == IF f \in Keys(impactDetailsMap)
                          THEN Range(impactDetailsMap[f]) ELSE {}
            IN  /\ \A r \in listed : Abs(r) \in ExtractedIncluders(fs, directory, f)
                /\ \A b \in ExtractedIncluders(fs, directory, f) :
                      /\ RootRelative(directory, b) \in listed
                      /\ \A a \in ExtractedIncluders(fs, directory, RootRelative(directory, b)) :
                            a \notin ExtractedIncluders(fs, directory, f)
                                => RootRelative(directory, a) \notin listed

\* a.txt includes page.rst, page.rst includes foo.rst, and foo.rst changed.
ChainResolved ==
    /\ pc = "resolved"
    /\ fs = <<[path |-> Abs(R_a), content |-> L_page],
              [path |-> Abs(R_page), content |-> L_abs]>>
    /\ changedFilesFromGit = <<R_foo>>
    /\ impactDetailsMap = (R_foo :> <<R_page>>)
    /\ directChanges = <<>>

-----------------------------------------------------------------------------
(* Claim about the path resolution (SpecPath).                             *)

\* C5: the location of a target without a leading "/" is the same under any
\* two root (hence source) directories, given the same includer directory;
\* the location of a target with a leading "/" is the same for any two
\* includers, given the same source directory.
C5_ResolutionIndependence ==
    pc = "located" =>
        IF StartsWith(directive, SEP)
        THEN \A i2 \in PathIncluders :
                ResolveTarget(directive, i2, directory) = resolved
        ELSE \A d2 \in PathDirectories, i2 \in PathIncluders :
                Dirname(i2) = Dirname(includer)
                    => ResolveTarget(directive, i2, d2) = resolved

C5_Witness ==
    /\ pc = "located"
    /\ ~StartsWith(directive, SEP)
    /\ includer = Abs(R_page)
    /\ directory # Cwd
    /\ resolved = Abs(R_foo)

-----------------------------------------------------------------------------
(* Claim about the extraction (SpecExtract).                               *)

RECURSIVE ClaimedTargets(_)
ClaimedTargets(lines) ==
    IF lines = <<>> THEN <<>>
    ELSE (IF DirectiveTarget(Head(lines)) # <<>>
          THEN <<DirectiveTarget(Head(lines))>> ELSE <<>>)
         \o ClaimedTargets(Tail(lines))

\* C6: the targets returned are, in line order, the whole trimmed remainder
\* after the first "::" of every directive line whose remainder is not empty.
C6_WholeRemainder ==
    (pc = "extracted" /\ IsFile(fs, extractPath)) =>
        includeFiles = ClaimedTargets(Split(ReadFile(fs, extractPath), <<"\n">>))

Contains(str, part) == \E i \in 0..Len(str) : StartsWith(Substring(str, i), part)

\* The same, for the files none of whose targets holds a "::".
Lemma_RemainderWithoutColons ==
    (/\ pc = "extracted"
     /\ IsFile(fs, extractPath)
     /\ \A t \in DirectiveTargets(ReadFile(fs, extractPath)) : ~Contains(t, DoubleColon)) =>
        includeFiles = ClaimedTargets(Split(ReadFile(fs, extractPath), <<"\n">>))

-----------------------------------------------------------------------------
(* Claims about the run fired by the onSuccess build event (Spec).         *)

\* C7: with both references set and a diff that throws, getChangedFiles
\* returns the empty list, and the run fired by the onSuccess event shows the
\* report of no relevant file changes and never fails the build.
C7_DiffFailureReportsNoChanges ==
    (/\ pc = "handled"
     /\ constants.BRANCH # <<>>
     /\ constants.HEAD # <<>>
     /\ gitDiff.throws) =>
        /\ getChangedFiles(constants.BRANCH, constants.HEAD, gitDiff).files = <<>>
        /\ statusShown = <<NoChangesReport(constants.BRANCH, constants.HEAD)>>
        /\ failPluginCalls = <<>>

\* C8: with a reference absent at the onSuccess event the build is made to
\* fail with a message, the diff is not run and no report is shown.
C8_MissingReferenceIsFatal ==
    (/\ pc = "handled"
     /\ constants.BRANCH = <<>> \/ constants.HEAD = <<>>) =>
        /\ Len(failPluginCalls) = 1
        /\ execSyncCalls = 0
        /\ statusShown = <<>>

\* Both hold of the function `onSuccess` when it is called (SpecCall).
Lemma_CallReportsNoChanges ==
    (/\ pc = "returned"
     /\ constants.BRANCH # <<>>
     /\ constants.HEAD # <<>>
     /\ gitDiff.throws) =>
        /\ statusShown = <<NoChangesReport(constants.BRANCH, constants.HEAD)>>
        /\ failPluginCalls = <<>>

Lemma_CallFailsOnMissingReference ==
    (/\ pc = "returned"
     /\ constants.BRANCH = <<>> \/ constants.HEAD = <<>>) =>
        /\ Len(failPluginCalls) = 1
        /\ execSyncCalls = 0
        /\ statusShown = <<>>

-----------------------------------------------------------------------------
(* Claim about the Markdown link (SpecLink).                               *)

ClaimedLink(path, url) ==
    LET parts == Split(path, SEP)
        noPrefix == IF StartsWith(path, SourcePrefix)
                    THEN Substring(path, Len(SourcePrefix)) ELSE path
        noExt == IF EndsWith(noPrefix, DotTxt) \/ EndsWith(noPrefix, DotRst)
                 THEN SubSeq(noPrefix, 1, Len(noPrefix) - 2) ELSE noPrefix
    IN  IF \/ url = <<>>
           \/ parts[1] # <<"source">>
           \/ (Len(parts) > 1 /\ parts[2] \in {<<"includes">>, <<"images">>, <<"examples">>})
        THEN path
        ELSE MarkdownLink(path, StripTrailingSlash(url) \o SEP \o noExt)

\* C9: every implementation of createNetlifyMarkdownLink returns the path
\* unchanged without a base URL, outside source/, or under an ignored
\* second-level directory, and the link to the stripped path otherwise.
C9_LinkInEveryImplementation ==
    pc \in {"linked index.ts", "linked part_000", "linked part_001"} =>
        markdownLink = ClaimedLink(linkPath, linkBaseUrl)

\* The implementation of index.ts does so for every path but the bare `source`.
Lemma_LinkOfIndexTs ==
    (pc = "linked index.ts" /\ linkPath # <<"source">>) =>
        markdownLink = ClaimedLink(linkPath, linkBaseUrl)

-----------------------------------------------------------------------------
(* Claim about the scanners under read failures (SpecScan).                *)

\* The directories from dir down to the one holding p, dir included.
DirectoriesAbove(dir, p) ==
    LET below == Split(Substring(p, Len(dir) + 1), SEP)
    IN  {dir \o Join([i \in 1..k |-> SEP \o below[i]], <<>>) : k \in 0..(Len(below) - 1)}

\* p lies under dir and every directory on the way to it can be read and is
\* one the scanners enter.
InReadableDirectories(dir, p, noRead) ==
    /\ StartsWith(p, dir \o SEP)
    /\ \A d \in DirectoriesAbove(dir, p) :
          /\ d \notin noRead
          /\ d = dir \/ Split(d, SEP)[Len(Split(d, SEP))] \notin SkippedDirNames

\* The files the scan of pc's scanner has to yield: policy A keeps the
\* relevant extensions, policy B every regular file.
ScanCandidates(position, tree, dir, noRead) ==
    {e.path : e \in {x \in Range(tree) :
        /\ InReadableDirectories(dir, x.path, noRead)
        /\ position = "walked index.ts" => IsCandidate(tree, dir, x.path)}}

ScanKeepsReadableFiles ==
    /\ ~thrown
    /\ ScanCandidates(pc, fs, directory, unreadable) \subseteq Range(scanned)
    /\ \A p \in Range(scanned) : InReadableDirectories(directory, p, unreadable)

\* C11: a directory that cannot be read ends the traversal of that directory
\* only: the scan does not fail and still yields every candidate file of the
\* readable directories, in the scanner of index.ts (policy A) and in the
\* scanners of part_000 and part_001 (policy B).
C11_ReadFailureEndsOneDirectory ==
    (/\ pc \in {"walked index.ts", "walked part_000", "walked part_001"}
     /\ directory \notin unreadable) =>
        ScanKeepsReadableFiles

\* The scanner of index.ts does so, also when the root itself cannot be read.
Lemma_ScanOfIndexTs ==
    pc = "walked index.ts" => ScanKeepsReadableFiles

\* The scanners of part_000 and part_001 do so when every directory is read.
Lemma_ScanWithoutFailure ==
    (pc \in {"walked part_000", "walked part_001"} /\ unreadable = {}) =>
        ScanKeepsReadableFiles

\* source/includes cannot be read; index.ts still yields the sibling and the
\* file of the root, and warns once.
ScanPastUnreadable ==
    /\ pc = "walked index.ts"
    /\ unreadable = {Abs(<<"source", "/", "includes">>)}
    /\ fs = [i \in 1..3 |-> [path |-> <<Abs(R_foo), Abs(R_page), Abs(R_top)>>[i],
                              content |-> <<>>]]
    /\ scanned = <<Abs(R_page), Abs(R_top)>>
    /\ Len(consoleLog) = 1

\* The same tree in part_000: the exception leaves the generator before any
\* file was yielded.
ScanThrowsPart000 ==
    /\ pc = "walked part_000"
    /\ unreadable = {Abs(<<"source", "/", "includes">>)}
    /\ fs = [i \in 1..3 |-> [path |-> <<Abs(R_foo), Abs(R_page), Abs(R_top)>>[i],
                              content |-> <<>>]]
    /\ thrown
    /\ scanned = <<>>

-----------------------------------------------------------------------------
(* Claim about the substring-match handlers (SpecSubstring).               *)

\* The handler of the variant ran to its end on a `git` argument.
SubstringModeRan ==
    /\ \/ pc = "handled part_000" /\ constants.GIT_CHANGED_FILES_ENABLED
       \/ pc = "handled part_001"
    /\ git.defined
    /\ ~thrown

\* The absolute-style path of a changed file under source/: the form a
\* directive uses, `/includes/foo.rst` for source/includes/foo.rst.
AbsoluteStyle(f) == Substring(f, 1)

\* The files either variant scans: every regular file under dir none of
\* whose directories is .git or node_modules.
IsScannedFile(tree, dir, p) ==
    /\ IsFile(tree, p)
    /\ InReadableDirectories(dir, p, {})

ListedAsImpacted(map, f, rel) ==
    \E i \in 1..Len(map) :
        map[i].includeFile = f /\ rel \in Range(map[i].impactedFiles)

HoldsDirectiveOf(content, target) ==
    \/ Contains(content, IncludeMarker \o <<" ">> \o target)
    \/ Contains(content, LiteralIncludeMarker \o <<" ">> \o target)

\* C12: in the substring-match mode a scanned file is listed as impacted by
\* a changed file under source/includes/ exactly when its content holds the
\* literal directive followed by the absolute-style path of the changed file.
C12_SubstringMatchesAbsoluteStyle ==
    SubstringModeRan =>
        \A f \in Range(git.modifiedFiles) :
            StartsWith(f, includesFolder) =>
                \A e \in Range(fs) :
                    IsScannedFile(fs, directory, e.path) =>
                        (ListedAsImpacted(impactedFilesMap, f, RootRelative(directory, e.path))
                            <=> HoldsDirectiveOf(e.content, AbsoluteStyle(f)))

\* What the variants match is the changed path as git gives it.
Lemma_SubstringMatchesChangedPath ==
    SubstringModeRan =>
        /\ \A f \in Range(git.modifiedFiles) :
              StartsWith(f, includesFolder) =>
                  \A e \in Range(fs) :
                      IsScannedFile(fs, directory, e.path) =>
                          (ListedAsImpacted(impactedFilesMap, f, RootRelative(directory, e.path))
                              <=> HoldsDirectiveOf(e.content, f))
        /\ \A i \in 1..Len(impactedFilesMap) :
              /\ impactedFilesMap[i].includeFile \in Range(git.modifiedFiles)
              /\ StartsWith(impactedFilesMap[i].includeFile, includesFolder)
              /\ \A rel \in Range(impactedFilesMap[i].impactedFiles) :
                    IsScannedFile(fs, directory, Abs(rel))

\* The tree of Scenario A in part_001: nothing is listed.
ScenarioANotMatched ==
    /\ pc = "handled part_001"
    /\ fs = <<[path |-> Abs(R_page), content |-> L_abs]>>
    /\ git = [defined |-> TRUE, modifiedFiles |-> <<R_foo>>]
    /\ ~thrown
    /\ impactedFilesMap = <<>>
    /\ Len(statusShown) = 1

\* A page naming the changed file by its path from the root is listed.
SourcePathMatched ==
    /\ pc = "handled part_000"
    /\ fs = <<[path |-> Abs(R_page), content |-> L_src]>>
    /\ git = [defined |-> TRUE, modifiedFiles |-> <<R_foo>>]
    /\ impactedFilesMap = <<[includeFile |-> R_foo, impactedFiles |-> <<R_page>>]>>

\* A directory that cannot be read ends the run of the handler: no report.
Lemma_UnreadableDirectoryEndsRun ==
    (/\ pc \in {"handled part_000", "handled part_001"}
     /\ thrown
     /\ git.defined) =>
        /\ statusShown = <<>>
        /\ unreadable # {}
        /\ \E f \in Range(git.modifiedFiles) : StartsWith(f, includesFolder)

RunEndedByUnreadableDirectory ==
    /\ pc = "handled part_000"
    /\ thrown
    /\ git.defined
    /\ Len(fs) > 1

====
